---- MODULE Spec2Model ----
(***************************************************************************)
(* Streaming delta assembler of the company research chat client.          *)
(*                                                                         *)
(*   frontend/src/api.ts   askQuestionStream, processLine                  *)
(*   frontend/src/App.tsx  handleSend and its onChunk / onComplete /       *)
(*                         onError callbacks, addSpaceBetweenWords         *)
(*                                                                         *)
(* Text is a sequence of one-character strings, so that the regular        *)
(* expressions of the source can be modelled character by character.       *)
(* An optional value (a JSON field that may be missing, a JavaScript       *)
(* undefined) is a sequence of length 0 (absent) or 1 (present).           *)
(***************************************************************************)
EXTENDS Integers, Sequences, FiniteSets, TLC

(***************************************************************************)
(* Optional values                                                         *)
(***************************************************************************)
Absent == <<>>

Some(x) == <<x>>

IsPresent(o) == o /= <<>>

Val(o) == o[1]

(***************************************************************************)
(* Characters                                                              *)
(***************************************************************************)
LowerSeq ==
    << "a", "b", "c", "d", "e", "f", "g", "h", "i", "j", "k", "l", "m",
       "n", "o", "p", "q", "r", "s", "t", "u", "v", "w", "x", "y", "z" >>

UpperSeq ==
    << "A", "B", "C", "D", "E", "F", "G", "H", "I", "J", "K", "L", "M",
       "N", "O", "P", "Q", "R", "S", "T", "U", "V", "W", "X", "Y", "Z" >>

Lower == { LowerSeq[i] : i \in 1..Len(LowerSeq) }

Upper == { UpperSeq[i] : i \in 1..Len(UpperSeq) }

Digit == { "0", "1", "2", "3", "4", "5", "6", "7", "8", "9" }

\* /[a-zA-Z0-9]/
AlphaNum == Lower \cup Upper \cup Digit

\* the characters String.prototype.trim removes
WhiteSpace == { " ", "\n", "\t", "\r" }

\* case folding of the regular expression flag i
ToLower(c) ==
    IF c \in Upper
    THEN LowerSeq[CHOOSE i \in 1..Len(UpperSeq) : UpperSeq[i] = c]
    ELSE c

(***************************************************************************)
(* String primitives of JavaScript                                         *)
(***************************************************************************)
SetMin(S) == CHOOSE m \in S : \A o \in S : m <= o

\* p occurs in s at position i
OccursAt(s, p, i) ==
    /\ i >= 1
    /\ i + Len(p) - 1 <= Len(s)
    /\ \A k \in 1..Len(p) : s[i + k - 1] = p[k]

\* s.indexOf(p, from), 1-based; 0 when there is no occurrence
IndexOf(s, p, from) ==
    LET hits == { i \in from..Len(s) : s[i] = p[1] /\ OccursAt(s, p, i) }
    IN  IF hits = {} THEN 0 ELSE SetMin(hits)

\* s.includes(p)
Includes(s, p) == IndexOf(s, p, 1) /= 0

RECURSIVE ReplaceAllFrom(_, _, _)
ReplaceAllFrom(s, p, i) ==
    IF i > Len(s) THEN <<>>
    ELSE IF s[i] = p[1] /\ OccursAt(s, p, i) THEN ReplaceAllFrom(s, p, i + Len(p))
    ELSE <<s[i]>> \o ReplaceAllFrom(s, p, i + 1)

\* s.replace(/p/g, '') for a literal p
ReplaceAll(s, p) == ReplaceAllFrom(s, p, 1)

\* s.replace(p, '') for a string p: the first occurrence only
ReplaceFirst(s, p) ==
    LET i == IndexOf(s, p, 1)
    IN  IF i = 0 THEN s
        ELSE SubSeq(s, 1, i - 1) \o SubSeq(s, i + Len(p), Len(s))

\* s.trim()
Trim(s) ==
    LET keep == { i \in 1..Len(s) : s[i] \notin WhiteSpace }
    IN  IF keep = {} THEN <<>>
        ELSE SubSeq(s, SetMin(keep), CHOOSE m \in keep : \A o \in keep : o <= m)

(***************************************************************************)
(* addSpaceBetweenWords (App.tsx)                                          *)
(***************************************************************************)
\* text.replace(/([a-z])([A-Z])/g, '$1 $2')
RECURSIVE CamelFrom(_, _)
CamelFrom(s, i) ==
    IF i > Len(s) THEN <<>>
    ELSE IF i + 1 <= Len(s) /\ s[i] \in Lower /\ s[i + 1] \in Upper
    THEN <<s[i], " ", s[i + 1]>> \o CamelFrom(s, i + 2)
    ELSE <<s[i]>> \o CamelFrom(s, i + 1)

\* result.replace(/([a-z])(I)([a-z])/g, '$1 $2 $3')
RECURSIVE PronounFrom(_, _)
PronounFrom(s, i) ==
    IF i > Len(s) THEN <<>>
    ELSE IF i + 2 <= Len(s) /\ s[i] \in Lower /\ s[i + 1] = "I" /\ s[i + 2] \in Lower
    THEN <<s[i], " ", "I", " ", s[i + 2]>> \o PronounFrom(s, i + 3)
    ELSE <<s[i]>> \o PronounFrom(s, i + 1)

\* the alternation (will|can|should|would|may|might), in its order
ShortWords ==
    << <<"w", "i", "l", "l">>, <<"c", "a", "n">>,
       <<"s", "h", "o", "u", "l", "d">>, <<"w", "o", "u", "l", "d">>,
       <<"m", "a", "y">>, <<"m", "i", "g", "h", "t">> >>

\* the alternatives that match at position i + 1 of s, between two letters
\* (flag i: [a-z] matches either case, the word matches in any case)
WordsAt(s, i) ==
    { k \in 1..Len(ShortWords) :
        /\ ToLower(s[i]) \in Lower
        /\ i + Len(ShortWords[k]) + 1 <= Len(s)
        /\ \A j \in 1..Len(ShortWords[k]) : ToLower(s[i + j]) = ShortWords[k][j]
        /\ ToLower(s[i + Len(ShortWords[k]) + 1]) \in Lower }

\* result.replace(/([a-z])(will|can|should|would|may|might)([a-z])/gi, '$1 $2 $3')
RECURSIVE WordFrom(_, _)
WordFrom(s, i) ==
    IF i > Len(s) THEN <<>>
    ELSE IF WordsAt(s, i) /= {}
    THEN LET n == Len(ShortWords[SetMin(WordsAt(s, i))])
         IN  <<s[i], " ">> \o SubSeq(s, i + 1, i + n) \o <<" ", s[i + n + 1]>>
                 \o WordFrom(s, i + n + 2)
    ELSE <<s[i]>> \o WordFrom(s, i + 1)

addSpaceBetweenWords(text) ==
    WordFrom(PronounFrom(CamelFrom(text, 1), 1), 1)

(***************************************************************************)
(* Text normalisation of the reasoning channel (App.tsx, onChunk)          *)
(***************************************************************************)
TagToolClose == <<"<", "/", "t", "o", "o", "l", ">">>

TagThinkOpen == <<"<", "t", "h", "i", "n", "k", ">">>

TagThinkClose == <<"<", "/", "t", "h", "i", "n", "k", ">">>

TagRedactedClose ==
    << "<", "/", "r", "e", "d", "a", "c", "t", "e", "d", "_",
       "r", "e", "a", "s", "o", "n", "i", "n", "g", ">" >>

OutputOpen == <<"<", "o", "u", "t", "p", "u", "t", ">">>

OutputClose == <<"<", "/", "o", "u", "t", "p", "u", "t", ">">>

\* the chain of five replace calls; the fourth repeats the <think> pattern
cleanedReasoning(reasoning) ==
    ReplaceAll(
        ReplaceAll(
            ReplaceAll(
                ReplaceAll(ReplaceAll(reasoning, TagToolClose), TagThinkOpen),
                TagThinkClose),
            TagThinkOpen),
        TagRedactedClose)

\* cleaned.match(/<output>(.*?)<\/output>/gs): the matched substrings, left to
\* right, each from an opening tag to the first closing tag after it
RECURSIVE OutputMatchesFrom(_, _)
OutputMatchesFrom(s, i) ==
    LET o == IndexOf(s, OutputOpen, i)
        c == IF o = 0 THEN 0 ELSE IndexOf(s, OutputClose, o + Len(OutputOpen))
    IN  IF o = 0 \/ c = 0 THEN <<>>
        ELSE <<SubSeq(s, o, c + Len(OutputClose) - 1)>>
                 \o OutputMatchesFrom(s, c + Len(OutputClose))

outputMatches(cleaned) == OutputMatchesFrom(cleaned, 1)

\* outputMatches.forEach(match => r = r.replace(match, ''))
RECURSIVE RemoveMatches(_, _, _)
RemoveMatches(r, matches, k) ==
    IF k > Len(matches) THEN r
    ELSE RemoveMatches(ReplaceFirst(r, matches[k]), matches, k + 1)

\* the text that goes on to the reasoning block: trimmed only when a span matched
reasoningWithoutOutput(cleaned) ==
    LET matches == outputMatches(cleaned)
    IN  IF matches = <<>> THEN cleaned
        ELSE Trim(RemoveMatches(cleaned, matches, 1))

\* outputMatch.match(/<output>(.*?)<\/output>/s)[1].trim()
outputContent(match) ==
    Trim(SubSeq(match, Len(OutputOpen) + 1, Len(match) - Len(OutputClose)))

(***************************************************************************)
(* Blocks                                                                  *)
(***************************************************************************)
ReasoningBlock(text) == [type |-> "reasoning", content |-> text]

ContentBlock(text) == [type |-> "content", content |-> text]

ToolBlock(tool) == [type |-> "tool", tool |-> tool]

\* { index: -1, type: 'output', output: outputContent }
OutputTool(text) ==
    [index |-> -1, type |-> "output", arguments |-> Absent, output |-> Some(text)]

\* newBlocks.filter(b => b.type === 'tool' && b.tool.type === 'output'
\*                       && b.tool.output === outputContent)
existingOutputBlocks(blocks, text) ==
    { i \in 1..Len(blocks) :
        /\ blocks[i].type = "tool"
        /\ blocks[i].tool.type = "output"
        /\ blocks[i].tool.output = Some(text) }

\* PushOutputs without the test for an output block that holds the text
RECURSIVE PushOutputs_NoDedup(_, _, _)
PushOutputs_NoDedup(blocks, matches, k) ==
    IF k > Len(matches) THEN blocks
    ELSE LET text == outputContent(matches[k])
         IN  IF Len(text) > 0
             THEN PushOutputs_NoDedup(Append(blocks, ToolBlock(OutputTool(text))),
                                      matches, k + 1)
             ELSE PushOutputs_NoDedup(blocks, matches, k + 1)

\* the second forEach over outputMatches: one synthetic tool block per span
\* whose trimmed text is not empty and not already held by an output block
RECURSIVE PushOutputs(_, _, _)
PushOutputs(blocks, matches, k) ==
    IF k > Len(matches) THEN blocks
    ELSE LET text == outputContent(matches[k])
         IN  IF Len(text) > 0 /\ existingOutputBlocks(blocks, text) = {}
             THEN PushOutputs(Append(blocks, ToolBlock(OutputTool(text))), matches, k + 1)
             ELSE PushOutputs(blocks, matches, k + 1)

\* separator that is always ''
separator_Never(lastContent, fragment) == <<>>

\* const separator = needsSpace ? ' ' : ''
separator(lastContent, fragment) ==
    LET lastChar == IF Len(lastContent) = 0 THEN <<>> ELSE <<lastContent[Len(lastContent)]>>
        firstChar == <<fragment[1]>>
        needsSpace ==
            /\ lastChar /= <<>>
            /\ lastChar[1] \in AlphaNum
            /\ firstChar[1] \in AlphaNum
            /\ lastChar[1] /= " "
            /\ firstChar[1] /= " "
    IN  IF needsSpace THEN <<" ">> ELSE <<>>

\* PushReasoning that never extends the last block
PushReasoning_AlwaysAppend(blocks, fragment) ==
    IF Len(fragment) = 0 THEN blocks
    ELSE Append(blocks, ReasoningBlock(addSpaceBetweenWords(fragment)))

\* if (reasoningWithoutOutput.length > 0) { ... }
PushReasoning(blocks, fragment) ==
    IF Len(fragment) = 0 THEN blocks
    ELSE IF Len(blocks) > 0 /\ blocks[Len(blocks)].type = "reasoning"
    THEN LET lastBlock == blocks[Len(blocks)]
             combined == lastBlock.content \o separator(lastBlock.content, fragment)
                             \o fragment
         IN  [blocks EXCEPT ![Len(blocks)] = ReasoningBlock(addSpaceBetweenWords(combined))]
    ELSE Append(blocks, ReasoningBlock(addSpaceBetweenWords(fragment)))

\* new Set(newBlocks.filter(b => b.type === 'tool').map(b => b.tool.index))
existingToolIndices(blocks) ==
    { blocks[i].tool.index : i \in { j \in 1..Len(blocks) : blocks[j].type = "tool" } }

\* PushTools without the test of existingToolIndices
RECURSIVE PushTools_NoCheck(_, _, _)
PushTools_NoCheck(blocks, tools, k) ==
    IF k > Len(tools) THEN blocks
    ELSE PushTools_NoCheck(Append(blocks, ToolBlock(tools[k])), tools, k + 1)

\* PushTools with unshift in the place of push
RECURSIVE PushTools_Front(_, _, _)
PushTools_Front(blocks, tools, k) ==
    IF k > Len(tools) THEN blocks
    ELSE IF tools[k].index \notin existingToolIndices(blocks)
    THEN PushTools_Front(<<ToolBlock(tools[k])>> \o blocks, tools, k + 1)
    ELSE PushTools_Front(blocks, tools, k + 1)

\* PushTools in which an event replaces the block that holds its index
RECURSIVE PushTools_LastWins(_, _, _)
PushTools_LastWins(blocks, tools, k) ==
    IF k > Len(tools) THEN blocks
    ELSE IF tools[k].index \notin existingToolIndices(blocks)
    THEN PushTools_LastWins(Append(blocks, ToolBlock(tools[k])), tools, k + 1)
    ELSE PushTools_LastWins(
             [i \in 1..Len(blocks) |->
                 IF blocks[i].type = "tool" /\ blocks[i].tool.index = tools[k].index
                 THEN ToolBlock(tools[k]) ELSE blocks[i]],
             tools, k + 1)

\* for (const tool of chunk.executed_tools) { ... }
RECURSIVE PushTools(_, _, _)
PushTools(blocks, tools, k) ==
    IF k > Len(tools) THEN blocks
    ELSE IF tools[k].index \notin existingToolIndices(blocks)
    THEN PushTools(Append(blocks, ToolBlock(tools[k])), tools, k + 1)
    ELSE PushTools(blocks, tools, k + 1)

ToolChannel(blocks, chunk) ==
    IF IsPresent(chunk.executed_tools) /\ Len(Val(chunk.executed_tools)) > 0
    THEN PushTools(blocks, Val(chunk.executed_tools), 1)
    ELSE blocks

ContentChannel(blocks, chunk) ==
    IF IsPresent(chunk.content) /\ Len(Val(chunk.content)) > 0
    THEN IF Len(blocks) > 0 /\ blocks[Len(blocks)].type = "content"
         THEN [blocks EXCEPT ![Len(blocks)] =
                  ContentBlock(blocks[Len(blocks)].content \o Val(chunk.content))]
         ELSE Append(blocks, ContentBlock(Val(chunk.content)))
    ELSE blocks

\* reasoningMatched that sets hasChanges for every reasoning fragment
reasoningMatched_Changed(blocks, cleaned, matches) ==
    LET remainder == IF matches = <<>> THEN cleaned
                     ELSE Trim(RemoveMatches(cleaned, matches, 1))
    IN  [blocks |-> PushReasoning(PushOutputs(blocks, matches, 1), remainder),
         changed |-> TRUE]

\* reasoningMatched that handles the remainder before the output blocks
reasoningMatched_RemainderFirst(blocks, cleaned, matches) ==
    LET remainder == IF matches = <<>> THEN cleaned
                     ELSE Trim(RemoveMatches(cleaned, matches, 1))
        withRemainder == PushReasoning(blocks, remainder)
        withOutputs == PushOutputs(withRemainder, matches, 1)
    IN  [blocks |-> withOutputs,
         changed |-> Len(withOutputs) > Len(withRemainder) \/ Len(remainder) > 0]

\* the reasoning channel once the spans are known: the output blocks first,
\* then the remainder; changed tells whether the channel set hasChanges
reasoningMatched(blocks, cleaned, matches) ==
    LET remainder == IF matches = <<>> THEN cleaned
                     ELSE Trim(RemoveMatches(cleaned, matches, 1))
        withOutputs == PushOutputs(blocks, matches, 1)
    IN  [blocks |-> PushReasoning(withOutputs, remainder),
         changed |-> Len(withOutputs) > Len(blocks) \/ Len(remainder) > 0]

reasoningCleaned(blocks, cleaned) ==
    reasoningMatched(blocks, cleaned, outputMatches(cleaned))

\* if (chunk.reasoning && chunk.reasoning.length > 0) { ... }
ReasoningChannel(blocks, chunk) ==
    IF IsPresent(chunk.reasoning) /\ Len(Val(chunk.reasoning)) > 0
    THEN reasoningCleaned(blocks, cleanedReasoning(Val(chunk.reasoning)))
    ELSE [blocks |-> blocks, changed |-> FALSE]

\* the end of the updater's body: newBlocks after the content channel, and
\* hasChanges, set by the reasoning channel, by a pushed tool block, by content
afterTools(reasoned, tooled, chunk) ==
    [newBlocks |-> ContentChannel(tooled, chunk),
     hasChanges |->
         \/ reasoned.changed
         \/ Len(tooled) > Len(reasoned.blocks)
         \/ (IsPresent(chunk.content) /\ Len(Val(chunk.content)) > 0)]

afterReasoning(reasoned, chunk) ==
    afterTools(reasoned, ToolChannel(reasoned.blocks, chunk), chunk)

\* one run of the body of the updater over currentBlocks: the reasoning
\* channel, the tool channel and the content channel, in the order of the code
applyChunk(currentBlocks, chunk) ==
    afterReasoning(ReasoningChannel(currentBlocks, chunk), chunk)

newBlocks(currentBlocks, chunk) == applyChunk(currentBlocks, chunk).newBlocks

hasChanges(currentBlocks, chunk) == applyChunk(currentBlocks, chunk).hasChanges

(***************************************************************************)
(* Messages and the state updaters handed to setMessages                   *)
(***************************************************************************)
UserMessage == [role |-> "user"]

\* { role: 'assistant', blocks: [] }
aiMessagePlaceholder == [role |-> "assistant", blocks |-> <<>>]

\* currentMessage.blocks || []
BlocksOf(message) == IF "blocks" \in DOMAIN message THEN message.blocks ELSE <<>>

\* { ...currentMessage, blocks: newBlocks }
WithBlocks(message, blocks) ==
    [f \in DOMAIN message \cup {"blocks"} |->
        IF f = "blocks" THEN blocks ELSE message[f]]

\* the updater of onChunk: (prev) => { ... }, run with the value index that
\* streamingMessageIndexRef.current has when the updater runs (0-based)
ChunkUpdater(prev, index, chunk) ==
    IF index >= 0 /\ index < Len(prev)
    THEN LET currentMessage == prev[index + 1]
             currentBlocks == BlocksOf(currentMessage)
             applied == applyChunk(currentBlocks, chunk)
         IN  IF applied.hasChanges
             THEN [prev EXCEPT ![index + 1] =
                      WithBlocks(currentMessage, applied.newBlocks)]
             ELSE prev
    ELSE prev

\* the updater of onError: removes the message at the captured index when it
\* has no blocks
RemoveUpdater(prev, index) ==
    IF /\ index >= 0
       /\ \/ index >= Len(prev)
          \/ "blocks" \notin DOMAIN prev[index + 1]
          \/ Len(prev[index + 1].blocks) = 0
    THEN [k \in 1..(Len(prev) - (IF index < Len(prev) THEN 1 ELSE 0)) |->
             IF k <= index THEN prev[k] ELSE prev[k + 1]]
    ELSE prev

(***************************************************************************)
(* The wire.  A unit is an indivisible piece of the response text: the     *)
(* six characters "data: ", the text "[DONE]", the first or the second     *)
(* half of the JSON text of a frame, a text that is no data prefix, a      *)
(* carriage return, a newline.  A read chunk may end after any unit.       *)
(***************************************************************************)
Unit(kind) == [u |-> kind, f |-> 0, h |-> 0]

NL == Unit("nl")

CR == Unit("cr")

DataPrefix == Unit("data: ")

DoneText == Unit("[DONE]")

OtherText == Unit("other")

JsonHalf(f, h) == [u |-> "json", f |-> f, h |-> h]

Text_Hi == <<"H", "i">>

Text_w == <<" ", "w">>

Text_To == <<"T", "o">>

\* a chunk of the stream: StreamChunk of api.ts
Chunk(reasoning, tools, content) ==
    [reasoning |-> reasoning, executed_tools |-> tools, content |-> content]

Tool(index, type, arguments, output) ==
    [index |-> index, type |-> type, arguments |-> arguments, output |-> output]

\* the JSON objects the server of the model sends: id, whether choices[0].delta
\* exists, and the three fields of the delta
Frame(id, hasDelta, delta) == [id |-> id, hasDelta |-> hasDelta, delta |-> delta]

Frames ==
    << Frame(Some("a"), TRUE, Chunk(Absent, Absent, Some(Text_Hi))),
       Frame(Some("b"), TRUE, Chunk(Absent, Absent, Some(Text_w))),
       Frame(Some("a"), TRUE, Chunk(Some(Text_To), Absent, Absent)),
       Frame(Absent, TRUE,
             Chunk(Absent, Some(<<Tool(0, "search", Some("q"), Absent)>>), Absent)),
       Frame(Some("c"), FALSE, Chunk(Absent, Absent, Absent)),
       Frame(Some("c"), TRUE, Chunk(Some(<<>>), Some(<<>>), Some(<<>>))),
       Frame(Some("c"), TRUE, Chunk(Some(<<>>), Absent, Some(Text_Hi))),
       Frame(Some(""), TRUE, Chunk(Absent, Absent, Some(Text_w))) >>

\* the lines a server may send
DataLine(f) == <<DataPrefix, JsonHalf(f, 1), JsonHalf(f, 2)>>

DoneLine == <<DataPrefix, DoneText>>

\* a data line whose payload is cut short: `data: {not valid json`
BadJsonLine == <<DataPrefix, JsonHalf(1, 1)>>

\* a line of another field of the event stream, such as `event: message`
NonDataLine == <<OtherText>>

BlankLine == <<>>

Lines ==
    { DataLine(f) : f \in 1..Len(Frames) }
        \cup { DoneLine, BadJsonLine, NonDataLine, BlankLine }

\* the longest script of a turn
MaxLines == 3

Scripts == UNION { [1..n -> Lines] : n \in 0..MaxLines }

\* the response text of a script: every line is ended by a newline, except
\* the last one when the server closes the stream without it
RECURSIVE Serialize(_, _, _)
Serialize(lines, k, lastOpen) ==
    IF k > Len(lines) THEN <<>>
    ELSE lines[k]
            \o (IF k = Len(lines) /\ lastOpen THEN <<>> ELSE <<NL>>)
            \o Serialize(lines, k + 1, lastOpen)

(***************************************************************************)
(* State                                                                   *)
(***************************************************************************)
VARIABLES
    script,                   \* the lines the server sends in this turn
    wire,                     \* the units of the response not yet read
    pc,                       \* askQuestionStream: "fetching", "reading", "returned"
    buffer,                   \* let buffer
    isComplete,               \* let isComplete
    processedIds,             \* const processedIds
    calls,                    \* the callback invocations so far, in order
    delivered,                \* the ids of the frames handed to onChunk, in order
    messages,                 \* useState: messages, as of the last render
    isLoading,                \* useState: isLoading
    error,                    \* useState: error
    streamingIndex,           \* useState: streamingIndex
    streamingMessageIndexRef, \* useRef: streamingMessageIndexRef.current
    pending,                  \* state updates queued for the next render
    mounted                   \* the App component is mounted (the route /prompt is shown)

vars ==
    << script, wire, pc, buffer, isComplete, processedIds, calls, delivered,
       messages, isLoading, error, streamingIndex, streamingMessageIndexRef, pending,
       mounted >>

(***************************************************************************)
(* State updates.  setX(v) and setMessages(updater) queue an update; the   *)
(* updater functions run when the component renders next, after the        *)
(* synchronous code that queued them has run to its next await.            *)
(***************************************************************************)
SetMessagesChunk(chunk) == [set |-> "messages", updater |-> "chunk", chunk |-> chunk]

\* an update whose updater was run when it was queued
SetMessagesState(value) == [set |-> "messages", updater |-> "state", value |-> value]

SetMessagesRemove(index) == [set |-> "messages", updater |-> "remove", index |-> index]

SetIsLoading(value) == [set |-> "isLoading", value |-> value]

SetError(value) == [set |-> "error", value |-> value]

SetStreamingIndex(value) == [set |-> "streamingIndex", value |-> value]

\* the messages after the queued updates q, from k on; index is the value of
\* streamingMessageIndexRef.current at the render
RECURSIVE RenderMessages(_, _, _, _)
RenderMessages(m, q, k, index) ==
    IF k > Len(q) THEN m
    ELSE IF q[k].set /= "messages" THEN RenderMessages(m, q, k + 1, index)
    ELSE IF q[k].updater = "chunk"
    THEN RenderMessages(ChunkUpdater(m, index, q[k].chunk), q, k + 1, index)
    ELSE IF q[k].updater = "state" THEN RenderMessages(q[k].value, q, k + 1, index)
    ELSE RenderMessages(RemoveUpdater(m, q[k].index), q, k + 1, index)

\* the last value queued for a plain state, or the current one
RECURSIVE RenderValue(_, _, _, _)
RenderValue(v, q, k, name) ==
    IF k > Len(q) THEN v
    ELSE RenderValue(IF q[k].set = name THEN q[k].value ELSE v, q, k + 1, name)

(***************************************************************************)
(* The callbacks handleSend passes to askQuestionStream.  They act on the  *)
(* record e of what one synchronous run of askQuestionStream changes:      *)
(* buffer, isComplete, processedIds, calls, delivered, pending, ref (the    *)
(* current value of streamingMessageIndexRef), wasComplete (the last       *)
(* result of processLine) and eager (whether an updater queued while no    *)
(* update is pending is run at once against the rendered messages).        *)
(***************************************************************************)
CallChunk(chunk) == [cb |-> "onChunk", chunk |-> chunk]

CallComplete == [cb |-> "onComplete", chunk |-> Chunk(Absent, Absent, Absent)]

CallError == [cb |-> "onError", chunk |-> Chunk(Absent, Absent, Absent)]

\* (chunk) => { setMessages((prev) => ...) }
onChunk(e, chunk) ==
    LET eagerState == ChunkUpdater(messages, e.ref, chunk)
        queued ==
            IF e.eager /\ e.pending = <<>>
            THEN IF eagerState = messages THEN <<>>
                 ELSE <<SetMessagesState(eagerState)>>
            ELSE <<SetMessagesChunk(chunk)>>
    IN  [e EXCEPT !.calls = Append(@, CallChunk(chunk)),
                  !.pending = @ \o queued]

\* () => { setIsLoading(false); ref.current = -1; setStreamingIndex(-1) }
onComplete(e) ==
    [e EXCEPT !.calls = Append(@, CallComplete),
              !.pending = @ \o <<SetIsLoading(FALSE), SetStreamingIndex(-1)>>,
              !.ref = -1]

\* (err) => { setIsLoading(false); setError(err.message); index = ref.current;
\*            ref.current = -1; setStreamingIndex(-1); setMessages(remove) }
onError(e) ==
    [e EXCEPT !.calls = Append(@, CallError),
              !.pending = @ \o << SetIsLoading(FALSE), SetError(TRUE),
                                  SetStreamingIndex(-1), SetMessagesRemove(e.ref) >>,
              !.ref = -1]

(***************************************************************************)
(* processLine (api.ts)                                                    *)
(***************************************************************************)
\* line.trim() and data.trim() on units
TrimUnits(s) ==
    LET keep == { i \in 1..Len(s) : s[i] /= CR }
    IN  IF keep = {} THEN <<>>
        ELSE SubSeq(s, SetMin(keep), CHOOSE m \in keep : \A o \in keep : o <= m)

\* line.startsWith('data: ') for a trimmed line: the prefix keeps its
\* trailing blank only when text follows it
StartsWithData(line) == Len(line) >= 2 /\ line[1] = DataPrefix

\* JSON.parse(data) returns: the text is the whole JSON text of one frame
ParseOk(data) ==
    /\ Len(data) = 2
    /\ data[1].u = "json"
    /\ data[1].h = 1
    /\ data[2] = JsonHalf(data[1].f, 2)

\* if (chunkId && ...): a string is truthy unless it is empty
Truthy(id) == IsPresent(id) /\ Val(id) /= ""

\* ExtractChunk copying every field of the delta, empty or not
ExtractChunk_KeepEmpty(delta) == delta

\* const chunk: StreamChunk = {}; only the non-empty fields are copied
ExtractChunk(delta) ==
    Chunk(IF IsPresent(delta.reasoning) /\ Len(Val(delta.reasoning)) > 0
              THEN delta.reasoning ELSE Absent,
          IF IsPresent(delta.executed_tools) /\ Len(Val(delta.executed_tools)) > 0
              THEN delta.executed_tools ELSE Absent,
          IF IsPresent(delta.content) /\ Len(Val(delta.content)) > 0
              THEN delta.content ELSE Absent)

\* processJson without the test of processedIds
processJson_NoDedup(e, json) ==
    IF ~json.hasDelta THEN e
    ELSE LET chunk == ExtractChunk(json.delta)
         IN  IF \/ IsPresent(chunk.reasoning)
                \/ IsPresent(chunk.executed_tools)
                \/ IsPresent(chunk.content)
             THEN onChunk([e EXCEPT !.processedIds =
                              IF Truthy(json.id) THEN @ \cup {Val(json.id)} ELSE @,
                                    !.delivered = Append(@, json.id)],
                          chunk)
             ELSE e

\* processJson recording the id before it looks at the delta
processJson_IdFirst(e, json) ==
    IF Truthy(json.id) /\ Val(json.id) \in e.processedIds THEN e
    ELSE LET chunk == ExtractChunk(json.delta)
             e1 == [e EXCEPT !.processedIds =
                       IF Truthy(json.id) THEN @ \cup {Val(json.id)} ELSE @]
         IN  IF ~json.hasDelta THEN e1
             ELSE IF \/ IsPresent(chunk.reasoning)
                     \/ IsPresent(chunk.executed_tools)
                     \/ IsPresent(chunk.content)
             THEN onChunk([e1 EXCEPT !.delivered = Append(@, json.id)], chunk)
             ELSE e1

\* processJson recording the id of every frame that has a delta
processJson_IdOnDelta(e, json) ==
    IF Truthy(json.id) /\ Val(json.id) \in e.processedIds THEN e
    ELSE IF ~json.hasDelta THEN e
    ELSE LET chunk == ExtractChunk(json.delta)
             e1 == [e EXCEPT !.processedIds =
                       IF Truthy(json.id) THEN @ \cup {Val(json.id)} ELSE @]
         IN  IF \/ IsPresent(chunk.reasoning)
                \/ IsPresent(chunk.executed_tools)
                \/ IsPresent(chunk.content)
             THEN onChunk([e1 EXCEPT !.delivered = Append(@, json.id)], chunk)
             ELSE e1

\* the JSON branch of processLine, for the parsed object json
processJson(e, json) ==
    IF Truthy(json.id) /\ Val(json.id) \in e.processedIds THEN e
    ELSE IF ~json.hasDelta THEN e
    ELSE LET chunk == ExtractChunk(json.delta)
         IN  IF \/ IsPresent(chunk.reasoning)
                \/ IsPresent(chunk.executed_tools)
                \/ IsPresent(chunk.content)
             THEN onChunk([e EXCEPT !.processedIds =
                              IF Truthy(json.id) THEN @ \cup {Val(json.id)} ELSE @,
                                    !.delivered = Append(@, json.id)],
                          chunk)
             ELSE e

\* processLine(line, onChunk, onComplete, processedIds); notify tells whether
\* the onComplete handed in is the one that sets isComplete and calls the
\* caller's onComplete (the read loop) or the empty function (end of stream)
processLine(e, line, notify) ==
    LET data == TrimUnits(Tail(line))
        e0 == [e EXCEPT !.wasComplete = FALSE]
    IN  IF ~StartsWithData(line) THEN e0
        ELSE IF data = <<>> THEN e0
        ELSE IF data = <<DoneText>>
        THEN [(IF notify THEN onComplete([e0 EXCEPT !.isComplete = TRUE]) ELSE e0)
                 EXCEPT !.wasComplete = TRUE]
        ELSE IF ParseOk(data) THEN processJson(e0, Frames[data[1].f])
        ELSE e0

(***************************************************************************)
(* askQuestionStream (api.ts)                                              *)
(***************************************************************************)
\* while ((newlineIndex = buffer.indexOf('\n')) !== -1) { ... }
RECURSIVE DrainLines(_)
DrainLines(e) ==
    LET newlineIndex == IndexOf(e.buffer, <<NL>>, 1)
        line == SubSeq(e.buffer, 1, newlineIndex - 1)
        rest == [e EXCEPT !.buffer = SubSeq(e.buffer, newlineIndex + 1, Len(e.buffer))]
        trimmed == TrimUnits(line)
    IN  IF newlineIndex = 0 THEN e
        ELSE IF trimmed = <<>> THEN DrainLines(rest)
        ELSE LET r == processLine(rest, trimmed, TRUE)
             IN  IF r.wasComplete THEN [r EXCEPT !.buffer = <<>>]
                 ELSE DrainLines(r)

\* EndOfStream that drops what is left in the buffer
EndOfStream_NoFlush(e) ==
    IF ~e.isComplete THEN onComplete(e) ELSE e

\* the if (done) branch of the read loop, up to the break
EndOfStream(e) ==
    LET trimmed == TrimUnits(e.buffer)
        e1 == IF ~e.isComplete /\ trimmed /= <<>> /\ StartsWithData(trimmed)
              THEN processLine(e, trimmed, FALSE)
              ELSE e
    IN  IF ~e1.isComplete THEN onComplete(e1) ELSE e1

\* the record e of the current state
Env(eager) ==
    [ buffer |-> buffer, isComplete |-> isComplete, processedIds |-> processedIds,
      calls |-> calls, delivered |-> delivered, pending |-> pending, ref |-> streamingMessageIndexRef,
      wasComplete |-> FALSE, eager |-> eager ]

\* the state takes the values of e
Commit(e) ==
    /\ buffer' = e.buffer
    /\ isComplete' = e.isComplete
    /\ processedIds' = e.processedIds
    /\ calls' = e.calls
    /\ delivered' = e.delivered
    /\ pending' = e.pending
    /\ streamingMessageIndexRef' = e.ref

\* await fetch(...) resolves with a response that is ok and has a body
FetchOk ==
    /\ pc = "fetching"
    /\ pc' = "reading"
    /\ buffer' = <<>>
    /\ isComplete' = FALSE
    /\ processedIds' = {}
    /\ UNCHANGED << script, wire, calls, delivered, messages, isLoading, error,
                    streamingIndex, streamingMessageIndexRef, pending, mounted >>

\* fetch rejects, or the response is not ok, or it has no body: the catch
\* clause calls onError
FetchFail ==
    /\ pc = "fetching"
    /\ pc' = "returned"
    /\ Commit(onError(Env(FALSE)))
    /\ UNCHANGED << script, wire, messages, isLoading, error, streamingIndex, mounted >>

\* reader.read() resolves with the next n units of the response; the loop
\* body runs to the next await
ReadChunk(n, eager) ==
    /\ pc = "reading"
    /\ n \in 1..Len(wire)
    /\ wire' = SubSeq(wire, n + 1, Len(wire))
    /\ Commit(DrainLines([Env(eager) EXCEPT !.buffer = @ \o SubSeq(wire, 1, n)]))
    /\ UNCHANGED << script, pc, messages, isLoading, error, streamingIndex, mounted >>

\* reader.read() resolves with done: true
ReadDone ==
    /\ pc = "reading"
    /\ wire = <<>>
    /\ pc' = "returned"
    /\ Commit(EndOfStream(Env(FALSE)))
    /\ UNCHANGED << script, wire, messages, isLoading, error, streamingIndex, mounted >>

\* reader.read() rejects: the catch clause calls onError
ReadFail ==
    /\ pc = "reading"
    /\ pc' = "returned"
    /\ Commit(onError(Env(FALSE)))
    /\ UNCHANGED << script, wire, messages, isLoading, error, streamingIndex, mounted >>

\* the component renders: the queued updates are applied in their order
Render ==
    /\ mounted
    /\ pending /= <<>>
    /\ messages' = RenderMessages(messages, pending, 1, streamingMessageIndexRef)
    /\ isLoading' = RenderValue(isLoading, pending, 1, "isLoading")
    /\ error' = RenderValue(error, pending, 1, "error")
    /\ streamingIndex' = RenderValue(streamingIndex, pending, 1, "streamingIndex")
    /\ pending' = <<>>
    /\ UNCHANGED << script, wire, pc, buffer, isComplete, processedIds, calls,
                    delivered, streamingMessageIndexRef, mounted >>

\* handleSend has added the user message and the placeholder, the component
\* has rendered, and askQuestionStream awaits the response of a server that
\* will send one of the scripts
Init ==
    /\ script \in Scripts
    /\ \E lastOpen \in BOOLEAN : wire = Serialize(script, 1, lastOpen)
    /\ pc = "fetching"
    /\ buffer = <<>>
    /\ isComplete = FALSE
    /\ processedIds = {}
    /\ calls = <<>>
    /\ delivered = <<>>
    /\ messages = <<UserMessage, aiMessagePlaceholder>>
    /\ isLoading = TRUE
    /\ error = FALSE
    /\ streamingIndex = 1
    /\ streamingMessageIndexRef = 1
    /\ pending = <<>>
    /\ mounted = TRUE

Next ==
    \/ FetchOk
    \/ FetchFail
    \/ \E n \in 1..Len(wire), eager \in BOOLEAN : ReadChunk(n, eager)
    \/ ReadDone
    \/ ReadFail
    \/ Render

Spec == Init /\ [][Next]_vars

(***************************************************************************)
(* The assembler alone: the stream of a turn is open and hands chunks to   *)
(* onChunk, drawn from a set that exercises the three channels.            *)
(***************************************************************************)
Text_gather == <<"g", "a", "t", "h", "e", "r">>

Text_A == <<"A">>

Text_B == <<"B">>

Span(inner) == OutputOpen \o inner \o OutputClose

\* `x <output>A</output> y<output> A\n</output>`: the same text twice
Text_TwoSpans ==
    <<"x", " ">> \o Span(Text_A) \o <<" ", "y">> \o Span(<<" ", "A", "\n">>)

\* `<think>To</think>`: whole control tags around a word
Text_Tagged == TagThinkOpen \o Text_To \o TagThinkClose

\* `</think`, the closing tag short of its last character, and `>`
Text_ThinkCut == SubSeq(TagThinkClose, 1, Len(TagThinkClose) - 1)

Text_Gt == <<">">>

\* a fragment of one blank
Text_Blank == <<" ">>

\* a fragment on which one pass of addSpaceBetweenWords leaves work for the next
Text_xcanycanz == <<"x", "c", "a", "n", "y", "c", "a", "n", "z">>

\* `<OUTPUT>A</OUTPUT>`
Text_UpperSpan ==
    <<"<", "O", "U", "T", "P", "U", "T", ">">> \o Text_A
        \o <<"<", "/", "O", "U", "T", "P", "U", "T", ">">>

AsmReasonings ==
    { Text_To, Text_gather, Span(Text_A), Text_TwoSpans, Span(<<" ">>),
      Span(Text_A) \o Span(Text_B), Text_Tagged, Text_ThinkCut, Text_Gt,
      Text_Blank, Text_xcanycanz, Text_UpperSpan }

Tools_Search == <<Tool(0, "search", Some("q"), Absent)>>

Tools_Again == <<Tool(0, "search", Some("p"), Some(Text_A)), Tool(1, "visit", Absent, Absent)>>

Tools_Minus == <<Tool(-1, "search", Absent, Absent)>>

\* two events with one index in one delta
Tools_Twice == <<Tool(2, "visit", Some("q"), Absent), Tool(2, "visit", Some("p"), Some(Text_A))>>

\* the lists of tool events a delta may carry
AsmTools == {Tools_Search, Tools_Again, Tools_Minus, Tools_Twice}

AsmChunks ==
    { Chunk(Some(r), Absent, Absent) : r \in AsmReasonings }
        \cup { Chunk(Absent, Some(t), Absent) : t \in AsmTools }
        \cup { Chunk(Absent, Absent, Some(c)) : c \in {Text_Hi, Text_w} }
        \cup { Chunk(Some(Text_TwoSpans), Some(Tools_Search), Some(Text_Hi)) }

\* the number of chunks of a turn
MaxDeltas == 3

\* processLine hands the chunk of a frame to onChunk
DeliverChunk(chunk, eager) ==
    /\ pc = "reading"
    /\ Len(calls) < MaxDeltas
    /\ Commit(onChunk(Env(eager), chunk))
    /\ UNCHANGED << script, wire, pc, messages, isLoading, error, streamingIndex, mounted >>

InitAsm ==
    /\ script = <<>>
    /\ wire = <<>>
    /\ pc = "reading"
    /\ buffer = <<>>
    /\ isComplete = FALSE
    /\ processedIds = {}
    /\ calls = <<>>
    /\ delivered = <<>>
    /\ messages = <<UserMessage, aiMessagePlaceholder>>
    /\ isLoading = TRUE
    /\ error = FALSE
    /\ streamingIndex = 1
    /\ streamingMessageIndexRef = 1
    /\ pending = <<>>
    /\ mounted = TRUE

NextAsm ==
    \/ \E chunk \in AsmChunks, eager \in BOOLEAN : DeliverChunk(chunk, eager)
    \/ Render

SpecAsm == InitAsm /\ [][NextAsm]_vars

(***************************************************************************)
(* Further turns.  While the stream of the first turn is read the user can *)
(* send again, by the keyboard or through the recorder, and can leave the  *)
(* page.  The stream of a later turn is not followed: it has been started  *)
(* and awaits its response.                                                *)
(***************************************************************************)
\* the turns a user starts
MaxTurns == 2

\* the longest script of the first turn where further turns are followed
MaxTurnLines == 2

\* the turns started so far: each added one user message
Turns == Cardinality({ i \in 1..Len(messages) : messages[i].role = "user" })

\* the user message and the placeholder are added, isLoading is set and the
\* index of the placeholder goes to streamingMessageIndexRef and to
\* streamingIndex; the component renders before the response arrives
StartTurn ==
    /\ messages' = messages \o <<UserMessage, aiMessagePlaceholder>>
    /\ isLoading' = TRUE
    /\ error' = FALSE
    /\ streamingIndex' = Len(messages) + 1
    /\ streamingMessageIndexRef' = Len(messages) + 1
    /\ UNCHANGED << script, wire, pc, buffer, isComplete, processedIds, calls,
                    delivered, pending, mounted >>

\* handleSend, from the send button or the Enter key: if (isLoading) return
\* reads the isLoading of the last render
handleSend ==
    /\ mounted
    /\ pending = <<>>
    /\ Turns < MaxTurns
    /\ ~isLoading
    /\ StartTurn

\* the isLoading that mediaRecorder.onstop and its handleSendWithAudio read:
\* the one of the render that made startRecording, whose button is disabled
\* while isLoading is true
isLoadingCaptured == FALSE

\* mediaRecorder.onstop has the transcription and calls handleSendWithAudio:
\* if (transcribedTextValue.trim() && !isLoading), if (isLoading) return
handleSendWithAudio ==
    /\ mounted
    /\ pending = <<>>
    /\ Turns < MaxTurns
    /\ ~isLoadingCaptured
    /\ StartTurn

\* the user leaves the page by the Back link: App is unmounted, its cleanup
\* stops the speech synthesis, the queued updates are dropped and later ones
\* are never applied
Unmount ==
    /\ mounted
    /\ mounted' = FALSE
    /\ pending' = <<>>
    /\ UNCHANGED << script, wire, pc, buffer, isComplete, processedIds, calls, delivered,
                    messages, isLoading, error, streamingIndex, streamingMessageIndexRef >>

InitTurns == Init /\ Len(script) <= MaxTurnLines

NextTurns ==
    \/ Next
    \/ handleSend
    \/ Unmount

\* typed sends and the Back link beside the stream of the first turn
SpecTurns == InitTurns /\ [][NextTurns]_vars

NextVoice ==
    \/ Next
    \/ handleSend
    \/ handleSendWithAudio

\* typed sends and voice sends beside the stream of the first turn
SpecVoice == InitTurns /\ [][NextVoice]_vars

(***************************************************************************)
(* What the claims speak of                                                *)
(***************************************************************************)
\* the blocks of the assistant message of the turn (the second message)
Transcript == IF Len(messages) >= 2 THEN BlocksOf(messages[2]) ELSE <<>>

CountCalls(cb) == Cardinality({ i \in 1..Len(calls) : calls[i].cb = cb })

\* askQuestionStream has returned without onError and the component has
\* rendered every queued update
Finalized == pc = "returned" /\ pending = <<>> /\ CountCalls("onError") = 0

IsDataLine(line) == \E f \in 1..Len(Frames) : line = DataLine(f)

FrameOf(line) == Frames[line[2].f]

\* a frame with a usable id whose delta has content and nothing else
ContentOnly(frame) ==
    /\ Truthy(frame.id)
    /\ frame.hasDelta
    /\ ~IsPresent(frame.delta.reasoning)
    /\ ~IsPresent(frame.delta.executed_tools)
    /\ IsPresent(frame.delta.content)
    /\ Len(Val(frame.delta.content)) > 0

\* content-only frames with pairwise distinct ids, then `data: [DONE]`
ContentScript ==
    /\ Len(script) >= 2
    /\ script[Len(script)] = DoneLine
    /\ \A k \in 1..(Len(script) - 1) : IsDataLine(script[k]) /\ ContentOnly(FrameOf(script[k]))
    /\ \A j, k \in 1..(Len(script) - 1) :
          j /= k => FrameOf(script[j]).id /= FrameOf(script[k]).id

RECURSIVE ConcatContent(_, _)
ConcatContent(lines, k) ==
    IF k > Len(lines) THEN <<>>
    ELSE (IF IsDataLine(lines[k]) THEN Val(FrameOf(lines[k]).delta.content) ELSE <<>>)
            \o ConcatContent(lines, k + 1)

\* C1: over one call of askQuestionStream, onComplete is invoked at most once.
C1_CompleteAtMostOnce == CountCalls("onComplete") <= 1

\* C2: onComplete and onError are never both invoked in one call of
\* askQuestionStream.
C2_NeverCompleteAndError ==
    ~(CountCalls("onComplete") >= 1 /\ CountCalls("onError") >= 1)

\* C3: once onComplete has been invoked for the [DONE] sentinel, no delta is
\* delivered to onChunk any more.
C3_NoChunkAfterDone ==
    \A i, j \in 1..Len(calls) :
        (i < j /\ calls[i].cb = "onComplete") => calls[j].cb /= "onChunk"

\* C4: for content-only frames with pairwise distinct ids followed by
\* `data: [DONE]`, the finalized transcript is exactly one Content block whose
\* text is the in-order concatenation of the fragments.
C4_ContentConcatenated ==
    (Finalized /\ ContentScript)
        => Transcript = <<ContentBlock(ConcatContent(script, 1))>>

\* C5: an id delivered to onChunk is recorded in processedIds, no id is
\* delivered twice, and a frame whose id is recorded changes nothing, so that
\* feeding it again gives the same transcript as feeding it once.
C5_DeliveredOnce ==
    /\ \A i \in 1..Len(delivered) :
          Truthy(delivered[i]) => Val(delivered[i]) \in processedIds
    /\ \A i, j \in 1..Len(delivered) :
          (i /= j /\ Truthy(delivered[i])) => delivered[i] /= delivered[j]
    /\ \A f \in 1..Len(Frames), eager \in BOOLEAN :
          (Truthy(Frames[f].id) /\ Val(Frames[f].id) \in processedIds)
              => processLine(Env(eager), DataLine(f), TRUE) = Env(eager)

\* a stream that sent the id "a" twice, in two different frames, has ended
C5_Witness ==
    /\ Len(script) = 2
    /\ script[1] = DataLine(1)
    /\ script[2] = DataLine(3)
    /\ Finalized
    /\ delivered = <<Some("a")>>
    /\ Transcript = <<ContentBlock(Text_Hi)>>

\* the lines that are no usable data frame: no data prefix, a payload that is
\* no JSON text, a JSON object without choices[0].delta
UnusableLines ==
    { NonDataLine, BadJsonLine }
        \cup { DataLine(f) : f \in { g \in 1..Len(Frames) : ~Frames[g].hasDelta } }

\* C9: a line that is no usable data frame invokes no callback, records no
\* id, queues no change of the transcript and does not end the read loop; the
\* frame that follows it is still delivered.
C9_UnusableLineIgnored ==
    /\ \A line \in UnusableLines, eager \in BOOLEAN, notify \in BOOLEAN :
          processLine(Env(eager), line, notify) = Env(eager)
    /\ (Len(script) >= 1 /\ \A k \in 1..Len(script) : script[k] \in UnusableLines)
          => /\ CountCalls("onChunk") = 0
             /\ processedIds = {}
             /\ Transcript = <<>>
             /\ (CountCalls("onError") = 0 => Len(messages) = 2)
    /\ ( /\ Len(script) >= 2
         /\ script[1] \in UnusableLines
         /\ script[2] = DataLine(1)
         /\ pc = "returned"
         /\ CountCalls("onError") = 0 )
          => (calls[1] = CallChunk(Frames[1].delta) /\ delivered[1] = Some("a"))

\* `data: {not valid json` and then a content frame were read in one chunk
C9_Witness ==
    /\ script = <<BadJsonLine, DataLine(1)>>
    /\ Finalized
    /\ calls = <<CallChunk(Frames[1].delta), CallComplete>>
    /\ Transcript = <<ContentBlock(Text_Hi)>>

\* the positions of the tool blocks of a block list
ToolPositions(blocks) == { i \in 1..Len(blocks) : blocks[i].type = "tool" }

\* the chunk of the reasoning channel alone
ReasoningChunk(text) == Chunk(Some(text), Absent, Absent)

ToolsChunk(tools) == Chunk(Absent, Some(tools), Absent)

ContentChunk(text) == Chunk(Absent, Absent, Some(text))

\* C6 as claimed: no two Tool blocks of the transcript have the same index,
\* the output blocks made from <output> spans included.
C6_ToolIndexUnique ==
    \A i, j \in ToolPositions(Transcript) :
        i /= j => Transcript[i].tool.index /= Transcript[j].tool.index

\* C6: for every index other than the sentinel -1 of the output blocks, at
\* most one Tool block of the transcript has it.
C6_RealToolIndexUnique ==
    \A i, j \in ToolPositions(Transcript) :
        (i /= j /\ Transcript[i].tool.index /= -1)
            => Transcript[i].tool.index /= Transcript[j].tool.index

\* index 0 came twice, and two output blocks share the index -1
C6_Witness ==
    /\ calls = << CallChunk(ToolsChunk(Tools_Search)),
                  CallChunk(ReasoningChunk(Span(Text_A) \o Span(Text_B))),
                  CallChunk(ToolsChunk(Tools_Again)) >>
    /\ pending = <<>>
    /\ Transcript = << ToolBlock(Tools_Search[1]), ToolBlock(OutputTool(Text_A)),
                       ToolBlock(OutputTool(Text_B)), ToolBlock(Tools_Again[2]) >>

\* C7: no two adjacent blocks of the transcript are both Reasoning blocks or
\* both Content blocks.
C7_NoAdjacentSameText ==
    \A i \in 1..(Len(Transcript) - 1) :
        ~( /\ Transcript[i].type = Transcript[i + 1].type
           /\ Transcript[i].type \in {"reasoning", "content"} )

\* two reasoning fragments with a delta that changes nothing between them
C7_Witness ==
    /\ calls = << CallChunk(ReasoningChunk(Text_To)),
                  CallChunk(ReasoningChunk(Span(<<" ">>))),
                  CallChunk(ReasoningChunk(Text_gather)) >>
    /\ pending = <<>>
    /\ Transcript = <<ReasoningBlock(Text_To \o <<" ">> \o Text_gather)>>

\* new keeps old as a prefix: the same blocks at the same places, except that
\* the last block of old may have changed, and then has kept its type
PrefixKept(old, new) ==
    /\ Len(new) >= Len(old)
    /\ \A i \in 1..Len(old) :
          /\ new[i].type = old[i].type
          /\ i < Len(old) => new[i] = old[i]

\* C8: applying a delta keeps the block list as a positional prefix, in which
\* only the former last block may change, keeping its type; the other
\* messages are left alone.  (The messages change at a render only, so every
\* value they take is met in a state without queued updates.)
C8_DeltaKeepsPrefix ==
    pending = <<>> =>
        \A chunk \in AsmChunks :
            LET new == ChunkUpdater(messages, streamingMessageIndexRef, chunk)
            IN  /\ Len(new) = Len(messages)
                /\ new[1] = messages[1]
                /\ PrefixKept(Transcript, BlocksOf(new[2]))

\* a tool block, then a content block that the next delta extended
C8_Witness ==
    /\ calls = << CallChunk(ToolsChunk(Tools_Search)), CallChunk(ContentChunk(Text_Hi)),
                  CallChunk(ContentChunk(Text_w)) >>
    /\ pending = <<>>
    /\ Transcript = <<ToolBlock(Tools_Search[1]), ContentBlock(Text_Hi \o Text_w)>>

\* the blocks of type output that hold the text
OutputBlocksWith(text) ==
    { i \in ToolPositions(Transcript) :
        Transcript[i].tool.type = "output" /\ Transcript[i].tool.output = Some(text) }

\* the reasoning fragments handed to onChunk so far
ReasoningCalls ==
    { i \in 1..Len(calls) : calls[i].cb = "onChunk" /\ IsPresent(calls[i].chunk.reasoning) }

SpansOf(i) == outputMatches(cleanedReasoning(Val(calls[i].chunk.reasoning)))

\* every span of fragment i, or every span with text, is cut out of the
\* reasoning text and, once rendered, held by exactly one output block
SpansSurfaced(i, withEmpty) ==
    \A k \in 1..Len(SpansOf(i)) :
        LET text == outputContent(SpansOf(i)[k])
        IN  /\ ~Includes(reasoningWithoutOutput(
                             cleanedReasoning(Val(calls[i].chunk.reasoning))),
                         SpansOf(i)[k])
            /\ (pending = <<>> /\ (withEmpty \/ Len(text) > 0))
                  => /\ Cardinality(OutputBlocksWith(text)) = 1
                     /\ \A b \in OutputBlocksWith(text) :
                           Transcript[b] = ToolBlock(OutputTool(text))

NoEqualOutputBlocks ==
    \A i, j \in ToolPositions(Transcript) :
        ( /\ i /= j
          /\ Transcript[i].tool.type = "output"
          /\ Transcript[j].tool.type = "output" )
            => Transcript[i].tool.output /= Transcript[j].tool.output

\* C10 as claimed: every complete <output> span of a reasoning fragment is
\* removed from the reasoning text and surfaced as a Tool block with index -1,
\* type output and the trimmed inner text, and no two output blocks hold
\* equal text.
C10_EverySpanSurfaced ==
    /\ \A i \in ReasoningCalls : SpansSurfaced(i, TRUE)
    /\ NoEqualOutputBlocks

\* C10: every complete <output> span of a reasoning fragment is removed from
\* the reasoning text; when its trimmed inner text is not empty it is held by
\* exactly one Tool block with index -1 and type output; no two output blocks
\* hold equal text.
C10_SpanWithTextSurfaced ==
    /\ \A i \in ReasoningCalls : SpansSurfaced(i, FALSE)
    /\ NoEqualOutputBlocks

\* the span A, then a fragment that holds it twice around other text
C10_Witness ==
    /\ calls = << CallChunk(ReasoningChunk(Span(Text_A))),
                  CallChunk(ReasoningChunk(Text_TwoSpans)) >>
    /\ pending = <<>>
    /\ Transcript = << ToolBlock(OutputTool(Text_A)),
                       ReasoningBlock(<<"x", " ", " ", "y">>) >>


ControlTags == { TagToolClose, TagThinkOpen, TagThinkClose, TagRedactedClose }

\* C11: no Reasoning block of the transcript contains one of the control tags
\* </tool>, <think>, </think>, </redacted_reasoning> as a substring, also when
\* a tag came split across two consecutive fragments.
C11_NoControlTag ==
    \A i \in 1..Len(Transcript) :
        Transcript[i].type = "reasoning"
            => \A tag \in ControlTags : ~Includes(Transcript[i].content, tag)


\* the frame f would be handed to onChunk now: it has a delta with a
\* non-empty field and its id, when it has one, is not recorded
Deliverable(f) ==
    /\ Frames[f].hasDelta
    /\ ExtractChunk(Frames[f].delta) /= Chunk(Absent, Absent, Absent)
    /\ ~(Truthy(Frames[f].id) /\ Val(Frames[f].id) \in processedIds)

\* C12: when the stream ends and no [DONE] line was seen, an unterminated last
\* line that is a deliverable data frame is handed to onChunk, then onComplete
\* is invoked, once, and the call returns; an unterminated `data: [DONE]` gives
\* the one onComplete alone.
C12_LastLineFlushed ==
    /\ (pc = "reading" /\ wire = <<>> /\ ~isComplete)
          => LET e == EndOfStream(Env(FALSE))
                 line == TrimUnits(buffer)
                 frames == { f \in 1..Len(Frames) : line = DataLine(f) /\ Deliverable(f) }
             IN  /\ \A f \in frames :
                       e.calls = calls \o << CallChunk(ExtractChunk(Frames[f].delta)),
                                             CallComplete >>
                 /\ frames = {} => e.calls = Append(calls, CallComplete)
    /\ (pc = "returned" /\ ~isComplete /\ CountCalls("onError") = 0)
          => /\ CountCalls("onComplete") = 1
             /\ calls[Len(calls)] = CallComplete

\* the stream closed after a content frame that no newline ended
C12_Witness ==
    /\ pc = "returned"
    /\ script = <<DataLine(1)>>
    /\ buffer = DataLine(1)
    /\ calls = <<CallChunk(Frames[1].delta), CallComplete>>


\* C13: a delta that produces no new block and no extension does not set
\* hasChanges, and the updater returns the messages it was given: no new
\* snapshot of the transcript is produced.
C13_NoOpKeepsState ==
    pending = <<>> =>
        \A chunk \in AsmChunks :
            newBlocks(Transcript, chunk) = Transcript
                => /\ ~hasChanges(Transcript, chunk)
                   /\ ChunkUpdater(messages, streamingMessageIndexRef, chunk) = messages

\* a tool index that came twice and a span without text: two deltas out of
\* three changed nothing
C13_Witness ==
    /\ calls = << CallChunk(ToolsChunk(Tools_Search)), CallChunk(ToolsChunk(Tools_Search)),
                  CallChunk(ReasoningChunk(Span(<<" ">>))) >>
    /\ pending = <<>>
    /\ Transcript = <<ToolBlock(Tools_Search[1])>>


\* C14: when the read fails after at least one block was assembled from the
\* deltas handed to onChunk, the messages are, once rendered, what they were
\* before the failure: only error, isLoading and streamingIndex change.
C14_FailureKeepsBlocks ==
    pc = "reading" =>
        LET before == RenderMessages(messages, pending, 1, streamingMessageIndexRef)
            e == onError(Env(FALSE))
            after == RenderMessages(messages, e.pending, 1, e.ref)
        IN  (Len(before) >= 2 /\ BlocksOf(before[2]) /= <<>>) => after = before


\* C15: when the call fails and no delta was handed to onChunk before, onError
\* is the only callback invoked, once, and the rendered messages have lost the
\* empty placeholder and kept the user message.
C15_EmptyFailureRemoved ==
    (CountCalls("onError") >= 1 /\ CountCalls("onChunk") = 0)
        => /\ calls = <<CallError>>
           /\ pending = <<>> => messages = <<UserMessage>>


\* a second turn B has been started
SecondTurn == Turns = 2

\* the place in messages of the user message of the last turn
LastUser == CHOOSE m \in { i \in 1..Len(messages) : messages[i].role = "user" } :
    \A o \in 1..Len(messages) : messages[o].role = "user" => o <= m

\* C16: what the stream of the first turn delivers after a second turn B was
\* started changes nothing of B: B's placeholder follows B's user message
\* and has no block (B's own stream has delivered nothing), the loading flag
\* is set and the streaming index is the one of B's placeholder.
C16_TurnsIsolated ==
    (mounted /\ SecondTurn)
        => /\ Len(messages) = LastUser + 1
           /\ messages[LastUser + 1] = aiMessagePlaceholder
           /\ isLoading
           /\ streamingIndex = LastUser

\* C17: once the caller has given up the turn, onComplete is not invoked,
\* and a step that takes a chunk from the stream issues no further read.
C17_CancelStopsTurn ==
    [][ ~mounted => /\ CountCalls("onComplete")' = CountCalls("onComplete")
                    /\ (wire' /= wire => pc' /= "reading") ]_vars

\* the first turn is between its start and its terminal notification
FirstTurnInFlight == CountCalls("onComplete") + CountCalls("onError") = 0

\* C20: at most one turn is in flight: a second turn is started only after
\* the terminal notification of the first.
C20_OneTurnInFlight == SecondTurn => ~FirstTurnInFlight


\* Array.prototype.join
RECURSIVE Join(_, _)
Join(texts, sep) ==
    IF texts = <<>> THEN <<>>
    ELSE IF Len(texts) = 1 THEN texts[1]
    ELSE texts[1] \o sep \o Join(Tail(texts), sep)

\* .map(block => block.content)
ContentsOf(blocks) == [i \in 1..Len(blocks) |-> blocks[i].content]

\* getContentText with the filter letting the Reasoning blocks through
getContentText_WithReasoning(message) ==
    IF "blocks" \notin DOMAIN message THEN <<>>
    ELSE Join(ContentsOf(SelectSeq(message.blocks, LAMBDA block : block.type /= "tool")),
              <<"\n", "\n">>)

\* getContentText: '' without blocks, else the contents of the blocks of
\* type 'content' joined by '\n\n'
getContentText(message) ==
    IF "blocks" \notin DOMAIN message THEN <<>>
    ELSE Join(ContentsOf(SelectSeq(message.blocks, LAMBDA block : block.type = "content")),
              <<"\n", "\n">>)

\* the assistant message with the first k blocks of the transcript
MessageUpTo(k) == WithBlocks(aiMessagePlaceholder, SubSeq(Transcript, 1, k))

\* blocks without the one at place i, and with another one put at place i
WithoutBlock(blocks, i) == SubSeq(blocks, 1, i - 1) \o SubSeq(blocks, i + 1, Len(blocks))

WithBlockAt(blocks, i, block) ==
    SubSeq(blocks, 1, i - 1) \o <<block>> \o SubSeq(blocks, i, Len(blocks))

\* the blocks that are not Content blocks, as they occur in transcripts
OtherBlocks == { ReasoningBlock(Text_Hi), ReasoningBlock(<<"\n", "\n">>),
                 ToolBlock(Tools_Search[1]) }

\* C18: getContentText gives the texts of the Content blocks in transcript
\* order with two newlines between neighbours: block by block, a block that
\* is not a Content block leaves the text as it is, the first Content block
\* gives its text, a later one adds two newlines and its text.  Removing,
\* adding or replacing a Reasoning or Tool block does not change the text,
\* and a message without blocks or without Content blocks gives ''.
C18_ContentTextOnly ==
    /\ getContentText(UserMessage) = <<>>
    /\ getContentText(MessageUpTo(0)) = <<>>
    /\ \A k \in 1..Len(Transcript) :
          getContentText(MessageUpTo(k)) =
            IF Transcript[k].type /= "content" THEN getContentText(MessageUpTo(k - 1))
            ELSE IF \A j \in 1..(k - 1) : Transcript[j].type /= "content"
                 THEN Transcript[k].content
                 ELSE getContentText(MessageUpTo(k - 1)) \o <<"\n", "\n">>
                        \o Transcript[k].content
    /\ \A i \in 1..Len(Transcript) :
          Transcript[i].type /= "content"
            => /\ getContentText(WithBlocks(aiMessagePlaceholder, WithoutBlock(Transcript, i)))
                    = getContentText(MessageUpTo(Len(Transcript)))
               /\ \A block \in OtherBlocks :
                    getContentText(WithBlocks(aiMessagePlaceholder,
                        WithBlockAt(WithoutBlock(Transcript, i), i, block)))
                      = getContentText(MessageUpTo(Len(Transcript)))
    /\ \A i \in 1..(Len(Transcript) + 1) : \A block \in OtherBlocks :
          getContentText(WithBlocks(aiMessagePlaceholder, WithBlockAt(Transcript, i, block)))
            = getContentText(MessageUpTo(Len(Transcript)))

\* two Content blocks with a Tool block between them give the two texts with
\* two newlines between
C18_Witness ==
    /\ Len(messages) >= 2
    /\ Transcript = <<ContentBlock(Text_Hi), ToolBlock(Tools_Search[1]), ContentBlock(Text_w)>>
    /\ getContentText(messages[2]) = <<"H", "i", "\n", "\n", " ", "w">>


\* the loop body for one read that resolves with the units w
AfterRead(e, w) == [DrainLines([e EXCEPT !.buffer = @ \o w]) EXCEPT !.wasComplete = FALSE]

\* the callbacks invoked when the units w arrive in one read and the stream
\* then ends
CallsInOneRead(e, w) == EndOfStream(AfterRead(e, w)).calls

\* the callbacks invoked when the first n units of w arrive in one read, the
\* others in a second read, and the stream then ends
CallsInTwoReads(e, w, n) ==
    EndOfStream(AfterRead(AfterRead(e, SubSeq(w, 1, n)), SubSeq(w, n + 1, Len(w)))).calls

\* C19: the callbacks invoked for the rest of the stream, and the deltas
\* handed to onChunk, are the same whether the rest arrives in one read or
\* is cut in two at any place.
C19_CutsDoNotMatter ==
    pc = "reading"
        => \A n \in 1..(Len(wire) - 1) :
              CallsInTwoReads(Env(FALSE), wire, n) = CallsInOneRead(Env(FALSE), wire)


\* a channel of a chunk is absent or holds a non-empty value
NonEmptyOrAbsent(field) == IsPresent(field) => Len(Val(field)) > 0

\* the frames whose delta has its three channels absent or empty
EmptyFrames ==
    { f \in 1..Len(Frames) :
        /\ Frames[f].hasDelta
        /\ \A field \in {"reasoning", "executed_tools", "content"} :
              IsPresent(Frames[f].delta[field]) => Val(Frames[f].delta[field]) = <<>> }

\* C21: every chunk handed to onChunk has each channel absent or non-empty
\* and at least one channel present; a frame whose delta has its three
\* channels absent or empty invokes no callback.
C21_NoEmptyChannel ==
    /\ \A i \in 1..Len(calls) :
          calls[i].cb = "onChunk"
            => /\ NonEmptyOrAbsent(calls[i].chunk.reasoning)
               /\ NonEmptyOrAbsent(calls[i].chunk.executed_tools)
               /\ NonEmptyOrAbsent(calls[i].chunk.content)
               /\ calls[i].chunk /= Chunk(Absent, Absent, Absent)
    /\ \A f \in EmptyFrames, notify \in BOOLEAN :
          processLine(Env(FALSE), DataLine(f), notify).calls = calls

\* a frame with three empty channels, then a frame with an empty reasoning
\* and a content: one chunk, holding the content alone
C21_Witness ==
    /\ script = <<DataLine(6), DataLine(7)>>
    /\ pc = "returned"
    /\ 6 \in EmptyFrames
    /\ calls = <<CallChunk(Chunk(Absent, Absent, Some(Text_Hi))), CallComplete>>


\* the frames without a usable id (absent or '') that carry a delta with a
\* non-empty channel
IdlessFrames ==
    { f \in 1..Len(Frames) :
        /\ ~Truthy(Frames[f].id)
        /\ Frames[f].hasDelta
        /\ ExtractChunk(Frames[f].delta) /= Chunk(Absent, Absent, Absent) }

\* the transcript after the chunks of the data lines k.. of lines are
\* applied to blocks, one after the other
RECURSIVE ApplyLines(_, _, _)
ApplyLines(blocks, lines, k) ==
    IF k > Len(lines) THEN blocks
    ELSE ApplyLines(newBlocks(blocks, ExtractChunk(FrameOf(lines[k]).delta)), lines, k + 1)

\* the decoder's part of C22: a frame without a usable id is handed to
\* onChunk whatever was processed before, and records nothing
IdlessDelivered ==
    /\ \A f \in IdlessFrames, notify \in BOOLEAN :
          LET e == processLine(Env(FALSE), DataLine(f), notify)
          IN  /\ e.calls = Append(calls, CallChunk(ExtractChunk(Frames[f].delta)))
              /\ e.processedIds = processedIds
    /\ (Len(script) >= 1 /\ \A k \in 1..Len(script) :
            \E f \in IdlessFrames : script[k] = DataLine(f))
          => /\ processedIds = {}
             /\ (pc = "returned" /\ CountCalls("onError") = 0
                    => CountCalls("onChunk") = Len(script))

\* C22: a frame without a usable id is never suppressed as a duplicate: it
\* is handed to onChunk and records no id, and when a turn of such frames
\* is finalized every one of them, equal ones too, is applied to the
\* transcript.
C22_IdlessNeverSuppressed ==
    /\ IdlessDelivered
    /\ (/\ Finalized
        /\ Len(script) >= 1
        /\ \A k \in 1..Len(script) : \E f \in IdlessFrames : script[k] = DataLine(f))
          => Transcript = ApplyLines(<<>>, script, 1)


\* the normalized fragment of a reasoning text: tags and spans cut out
Normalized(reasoning) == reasoningWithoutOutput(cleanedReasoning(reasoning))

\* the last block of the transcript is a Reasoning block and the chunk of
\* the reasoning text extends it
Extends(reasoning) ==
    /\ Len(Transcript) >= 1
    /\ Transcript[Len(Transcript)].type = "reasoning"
    /\ Normalized(reasoning) /= <<>>
    /\ Len(newBlocks(Transcript, ReasoningChunk(reasoning))) = Len(Transcript)

\* one space when the characters on both sides of the join are in
\* [a-zA-Z0-9], nothing otherwise
JoinSpace(left, right) ==
    IF left[Len(left)] \in AlphaNum /\ right[1] \in AlphaNum THEN <<" ">> ELSE <<>>

\* C23: when a non-empty normalized fragment extends the last Reasoning
\* block, the new text is the repaired old text, one space if and only if
\* the characters on both sides of the join are in [a-zA-Z0-9], and the
\* repaired fragment: nothing else stands at the join.
C23_SpaceAtJoin ==
    pending = <<>> =>
        \A reasoning \in AsmReasonings :
            Extends(reasoning) =>
                LET old == Transcript[Len(Transcript)].content
                    fragment == Normalized(reasoning)
                    new == newBlocks(Transcript, ReasoningChunk(reasoning))
                IN  new[Len(Transcript)] =
                        ReasoningBlock(addSpaceBetweenWords(old)
                                         \o JoinSpace(old, fragment)
                                         \o addSpaceBetweenWords(fragment))

\* "To" and then "gather" give "To gather", and ">" joins with nothing between
C23_Witness ==
    /\ calls = << CallChunk(ReasoningChunk(Text_To)), CallChunk(ReasoningChunk(Text_gather)),
                  CallChunk(ReasoningChunk(Text_Gt)) >>
    /\ pending = <<>>
    /\ Transcript = <<ReasoningBlock(<<"T", "o", " ", "g", "a", "t", "h", "e", "r", ">">>)>>


\* the reasoning text with its tags and its spans cut out, before any trim
Stripped(reasoning) ==
    RemoveMatches(cleanedReasoning(reasoning), outputMatches(cleanedReasoning(reasoning)), 1)

\* the Reasoning blocks of a block list, in their order
ReasoningBlocksOf(blocks) == SelectSeq(blocks, LAMBDA block : block.type = "reasoning")

\* C24: the reasoning text that goes on to the blocks is the stripped text
\* without leading and trailing whitespace, with or without a span in the
\* fragment; a fragment whose stripped text is only whitespace adds no
\* Reasoning block and extends none.
C24_AlwaysTrimmed ==
    pending = <<>> =>
        \A reasoning \in AsmReasonings :
            /\ Normalized(reasoning) = Trim(Stripped(reasoning))
            /\ Trim(Stripped(reasoning)) = <<>>
                  => ReasoningBlocksOf(newBlocks(Transcript, ReasoningChunk(reasoning)))
                        = ReasoningBlocksOf(Transcript)


\* C25: an output span is recognised whatever the case of its tags: the
\* fragment `<OUTPUT>A</OUTPUT>` changes the transcript as the fragment
\* `<output>A</output>` does.
C25_TagCaseIgnored ==
    pending = <<>> =>
        newBlocks(Transcript, ReasoningChunk(Text_UpperSpan))
            = newBlocks(Transcript, ReasoningChunk(Span(Text_A)))


\* the tool events handed to onChunk so far, in their order of arrival
RECURSIVE ToolEventsFrom(_)
ToolEventsFrom(k) ==
    IF k > Len(calls) THEN <<>>
    ELSE (IF calls[k].cb = "onChunk" /\ IsPresent(calls[k].chunk.executed_tools)
          THEN Val(calls[k].chunk.executed_tools) ELSE <<>>)
            \o ToolEventsFrom(k + 1)

ToolEvents == ToolEventsFrom(1)

\* the place in ToolEvents of the first event with the index
FirstArrival(index) ==
    SetMin({ k \in 1..Len(ToolEvents) : ToolEvents[k].index = index })

\* the Tool blocks of the transcript that were made from tool events
EventPositions == { p \in ToolPositions(Transcript) : Transcript[p].tool.type /= "output" }

\* the events of a list that are appended to the transcript: those whose
\* index no Tool block holds and no earlier event of the list has
Accepted(tools) ==
    SelectSeq(tools,
              LAMBDA tool :
                  /\ tool.index \notin existingToolIndices(Transcript)
                  /\ tool = tools[SetMin({ k \in 1..Len(tools) : tools[k].index = tool.index })])

\* C26: every Tool block made from a tool event holds the first event that
\* arrived with its index, unchanged, and these blocks stand in the order in
\* which their indices first arrived; a delta appends its events in their
\* order, skipping those whose index is already held, and changes no block.
C26_FirstToolWins ==
    pending = <<>> =>
        /\ \A p \in EventPositions :
              Transcript[p].tool = ToolEvents[FirstArrival(Transcript[p].tool.index)]
        /\ \A p, q \in EventPositions :
              p < q => FirstArrival(Transcript[p].tool.index)
                          < FirstArrival(Transcript[q].tool.index)
        /\ \A tools \in AsmTools :
              newBlocks(Transcript, ToolsChunk(tools))
                = Transcript \o [k \in 1..Len(Accepted(tools)) |-> ToolBlock(Accepted(tools)[k])]

\* index 0, then index 2 twice in one delta, then index 0 again with index 1
C26_Witness ==
    /\ calls = << CallChunk(ToolsChunk(Tools_Search)), CallChunk(ToolsChunk(Tools_Twice)),
                  CallChunk(ToolsChunk(Tools_Again)) >>
    /\ pending = <<>>
    /\ Transcript = << ToolBlock(Tools_Search[1]), ToolBlock(Tools_Twice[1]),
                       ToolBlock(Tools_Again[2]) >>


\* text a is a prefix of text b
IsPrefix(a, b) == Len(a) <= Len(b) /\ SubSeq(b, 1, Len(a)) = a

\* the text of the last block before the updater runs on the chunk is a
\* prefix of the text the block holds after it, for a last block of the type
TextKept(chunk, type) ==
    (Len(Transcript) >= 1 /\ Transcript[Len(Transcript)].type = type)
        => IsPrefix(Transcript[Len(Transcript)].content,
                    newBlocks(Transcript, chunk)[Len(Transcript)].content)

\* C27: a delta that extends the last Reasoning or Content block leaves the
\* text the block held as a prefix of its new text.
C27_ExtensionKeepsText ==
    pending = <<>> =>
        \A chunk \in AsmChunks : TextKept(chunk, "reasoning") /\ TextKept(chunk, "content")


\* the chunk that carries the three channels
Chunk_All == Chunk(Some(Text_TwoSpans), Some(Tools_Search), Some(Text_Hi))

\* the place of a block in the order of one delta: output blocks, the
\* reasoning remainder, the tool events, the content
Rank(block) ==
    IF block.type = "tool" /\ block.tool.type = "output" THEN 1
    ELSE IF block.type = "reasoning" THEN 2
    ELSE IF block.type = "tool" THEN 3
    ELSE 4

\* the places after last where the block list new holds an output block
NewOutputs(new, last) == { i \in (last + 1)..Len(new) : Rank(new[i]) = 1 }

\* the blocks of new after place last stand in the order of the ranks
InRankOrder(new, last) ==
    \A i \in (last + 1)..(Len(new) - 1) : Rank(new[i]) <= Rank(new[i + 1])

\* new keeps the transcript, then holds n output blocks, then the remainder
\* as a Reasoning block of its own
RemainderAfterOutputs(new, last, n, remainder) ==
    /\ SubSeq(new, 1, last) = Transcript
    /\ \A i \in (last + 1)..(last + n) : Rank(new[i]) = 1
    /\ new[last + n + 1] = ReasoningBlock(addSpaceBetweenWords(remainder))

\* C28: the blocks one delta appends stand in the order output blocks,
\* reasoning, tool events, content; and when the delta appends an output
\* block and has a reasoning remainder, the block that was last before the
\* delta is left as it was and the remainder is a new Reasoning block right
\* after the new output blocks.
C28_ChannelOrder ==
    pending = <<>> =>
        \A chunk \in AsmChunks :
            LET new == newBlocks(Transcript, chunk)
                last == Len(Transcript)
                n == Cardinality(NewOutputs(new, last))
            IN  /\ InRankOrder(new, last)
                /\ (n > 0 /\ IsPresent(chunk.reasoning)
                          /\ Normalized(Val(chunk.reasoning)) /= <<>>)
                      => RemainderAfterOutputs(new, last, n, Normalized(Val(chunk.reasoning)))

\* a Reasoning block, then one delta with a span, a remainder, a tool event
\* and a content
C28_Witness ==
    /\ calls = <<CallChunk(ReasoningChunk(Text_To)), CallChunk(Chunk_All)>>
    /\ pending = <<>>
    /\ Transcript = << ReasoningBlock(Text_To), ToolBlock(OutputTool(Text_A)),
                       ReasoningBlock(<<"x", " ", " ", "y">>), ToolBlock(Tools_Search[1]),
                       ContentBlock(Text_Hi) >>


\* the frames that carry an id and are dropped: no choices[0].delta, or a
\* delta whose three channels are absent or empty
DroppedWithId ==
    { f \in 1..Len(Frames) :
        Truthy(Frames[f].id) /\ (~Frames[f].hasDelta \/ f \in EmptyFrames) }

\* the frames with the id of a dropped frame and a non-empty channel
SameIdDeliverable ==
    { f \in 1..Len(Frames) :
        /\ Frames[f].hasDelta
        /\ f \notin EmptyFrames
        /\ \E d \in DroppedWithId : Frames[d].id = Frames[f].id }

\* C29: a frame that carries an id and is dropped leaves processedIds as it
\* was, so that a turn made of dropped frames and one later frame with the
\* same id and a non-empty channel hands that frame to onChunk; processedIds
\* never has more ids than chunks were handed to onChunk.
C29_DroppedKeepsId ==
    /\ \A f \in DroppedWithId, notify \in BOOLEAN :
          LET e == processLine(Env(FALSE), DataLine(f), notify)
          IN  e.processedIds = processedIds /\ e.calls = calls
    /\ Cardinality(processedIds) <= CountCalls("onChunk")
    /\ (/\ pc = "returned"
        /\ CountCalls("onError") = 0
        /\ Len(script) >= 2
        /\ \A k \in 1..(Len(script) - 1) : \E d \in DroppedWithId : script[k] = DataLine(d)
        /\ \E f \in SameIdDeliverable : script[Len(script)] = DataLine(f))
          => calls = << CallChunk(ExtractChunk(FrameOf(script[Len(script)]).delta)),
                        CallComplete >>

\* a frame with id c and no delta, one with id c and an empty delta, then
\* one with id c and a content
C29_Witness ==
    /\ script = <<DataLine(5), DataLine(6), DataLine(7)>>
    /\ {5, 6} \subseteq DroppedWithId
    /\ 7 \in SameIdDeliverable
    /\ pc = "returned"
    /\ processedIds = {"c"}
    /\ calls = <<CallChunk(Chunk(Absent, Absent, Some(Text_Hi))), CallComplete>>


\* the chunks the frames of the model give
FrameChunks == { ExtractChunk(Frames[f].delta) : f \in 1..Len(Frames) }

\* C30: from its start to its own terminal notification a turn has
\* isLoading true and streamingMessageIndexRef at the place of its assistant
\* message; after the terminal notification streamingMessageIndexRef is -1
\* and, once rendered, isLoading is false; a delta delivered while
\* streamingMessageIndexRef is -1 changes no message.  (The second turn has
\* no terminal notification in the model.)
C30_TurnStateHeld ==
    /\ (Turns = 1 /\ FirstTurnInFlight)
          => (isLoading /\ streamingMessageIndexRef = 1)
    /\ (Turns = 1 /\ ~FirstTurnInFlight)
          => /\ streamingMessageIndexRef = -1
             /\ (mounted /\ pending = <<>>) => ~isLoading
    /\ (mounted /\ SecondTurn)
          => (isLoading /\ streamingMessageIndexRef = LastUser)
    /\ streamingMessageIndexRef = -1
          => \A chunk \in FrameChunks :
                ChunkUpdater(messages, streamingMessageIndexRef, chunk) = messages

====
